---------------------------- MODULE Spec2Model ----------------------------
(***************************************************************************)
(* colorschemer: the bounded LRU image cache (utils/cache.py) and the job  *)
(* controller of the application (components/app.py): theme selection,     *)
(* background recolor jobs on a two-worker pool, publication of results to *)
(* the preview, settings changes; the recolor pipeline (clustering.py).    *)
(*                                                                         *)
(* Specifications:                                                         *)
(*   SpecCache    an ImageCache of capacity 1..MaxCap driven by arbitrary  *)
(*                get and put calls;                                       *)
(*   Spec         the application: every handler runs on the control       *)
(*                thread and is one atomic action; a worker is one action  *)
(*                for the part of _process_theme_background that runs on   *)
(*                the pool thread and one for the callback it hands to the *)
(*                control thread with call_from_thread;                    *)
(*   SpecJobs     Spec with the history of who submitted each job and      *)
(*                under which parameters;                                  *)
(*   SpecFair     Spec with the fairness of the pool and the event loop;   *)
(*   SpecUnmount  Spec with on_unmount;                                    *)
(*   SpecPreload  the application with PreloadThemes themes and key        *)
(*                presses made while no job is pending;                    *)
(*   SpecMapper   the palette mapping of apply_color_scheme (clustering.py)*)
(*                on drawn centres and palettes;                           *)
(*   SpecRecolor  apply_color_scheme on drawn clustering data, palette and *)
(*                brightness flag;                                         *)
(*   SpecExtract  repeated calls of compute_image_clusters on one image;   *)
(*   SpecDisplay  the sizes of the image objects shared by the cache, the  *)
(*                Preview and action_save;                                 *)
(*   SpecCacheRemoval  SpecCache with the direct removal of a key done by  *)
(*                apply_settings;                                          *)
(*   SpecSelections, SpecSettings  the application without failing jobs,   *)
(*                the user only selecting, or only applying settings;      *)
(*   SpecUnmountFair  SpecUnmount with the fairness of SpecFair.           *)
(***************************************************************************)
EXTENDS Integers, Sequences, FiniteSets, Bags

VARIABLES
    image_cache,                \* App.image_cache: [cache, access_order, max_size]
    current_processing_theme,   \* App.current_processing_theme
    preview,                    \* Preview.current_theme, Preview.current_image
    original_image,             \* App.original_image is set
    clustering_data,            \* App.clustering_data
    sampling_size,              \* App.sampling_size
    color_count,                \* App.color_count
    max_iterations,             \* App.max_iterations
    preserve_brightness,        \* App.preserve_brightness
    settings_panel,             \* the Settings widget's four attributes
    highlighted,                \* Themes.highlighted
    filtered_themes,            \* Themes.filtered_themes
    phase,                      \* "constructed", "running", "unmounting" (the
                                \* control thread is inside on_unmount),
                                \* "unmounted"
    preload_timer,              \* the 0.5 s timer of on_mount is pending
    queue,                      \* jobs submitted to the executor, not started
    running,                    \* the jobs the pool threads are executing
    record_submissions,         \* history: whether submitted is kept (SpecJobs)
    submitted,                  \* history: per queued job, its submitter and the
                                \* pipeline parameters in force at submission
    recency,                    \* history: keys by their last get or put, oldest first
    last_put,                   \* history: the image of the latest put per key
    ret,                        \* the value the last ImageCache call returned
    last_op,                    \* history: the last ImageCache call
    prev_op,                    \* history: the ImageCache call before it
    recolor,                    \* one call of apply_color_scheme: its arguments,
                                \* what np.argsort returns, its locals and result
    extract,                    \* calls of compute_image_clusters on one image
    display                     \* the image objects and their sizes: the ones
                                \* the cache and the Preview refer to, the
                                \* size of the file action_save wrote

vars == <<image_cache, current_processing_theme, preview, original_image,
          clustering_data, sampling_size, color_count, max_iterations,
          preserve_brightness, settings_panel, highlighted,
          filtered_themes, phase, preload_timer, queue, running,
          record_submissions, submitted,
          recency, last_put, ret, last_op, prev_op,
          recolor, extract, display>>

(***************************************************************************)
(* Bounds of the model.                                                    *)
(***************************************************************************)
\* number of themes in color_schemes
NThemes == 2
\* SpecCache: an ImageCache of capacity 1..MaxCap and the keys 1..NKeys
MaxCap == 3
NKeys == 3
\* capacity of the application's cache: CACHE_SIZE_LIMIT (50) scaled down so
\* that NThemes themes overflow it
CacheCap == 1
\* jobs waiting in the executor's queue
MaxQueue == 1

\* the recolor pipeline: centres, palette colours and pixels of a call
MapperK == 3
MapperM == 2
RecolorK == 2
RecolorM == 2
RecolorPixels == 1
\* SpecExtract: pixels of the image, and calls of compute_image_clusters on it
ExtractPixels == 3
ExtractRuns == 2
\* SpecDisplay: image objects made by jobs
DisplayObjects == 2
\* SpecPreload: number of themes in color_schemes
PreloadThemes == 5
\* SpecPreload: a key press is handled when at most this many jobs are
\* queued or running
PreloadPending == 0

(***************************************************************************)
(* Program constants.                                                      *)
(***************************************************************************)
MIN_SAMPLING_SIZE == 1000
MAX_SAMPLING_SIZE == 100000
MIN_COLOR_COUNT == 4
MAX_COLOR_COUNT == 16
MIN_MAX_ITERATIONS == 50
MAX_MAX_ITERATIONS == 500
DEFAULT_SAMPLING_SIZE == 50000
DEFAULT_COLOR_COUNT == 8
DEFAULT_MAX_ITERATIONS == 100
DEFAULT_PRESERVE_BRIGHTNESS == TRUE
\* compute_image_clusters: KMeans(random_state=42, max_iter=100)
KMEANS_RANDOM_STATE == 42
KMEANS_MAX_ITER == 100
MAX_IMAGE_WIDTH == 1200
MAX_IMAGE_HEIGHT == 800
MAX_WORKERS == 2

Themes == 1..NThemes
\* None, for a theme name
NoTheme == 0

(***************************************************************************)
(* Images and clustering data are represented by what they were computed   *)
(* from: the theme, the clustering run's parameters, the brightness flag.  *)
(***************************************************************************)
NoClusters ==
    [sample_size |-> 0, n_colors |-> 0, max_iter |-> 0, random_state |-> 0]

NoImage ==
    [theme |-> NoTheme, sample_size |-> 0, n_colors |-> 0, max_iter |-> 0,
     random_state |-> 0, preserve_brightness |-> FALSE]

\* compute_image_clusters(image, sample_size, n_colors)
compute_image_clusters(sample_size, n_colors) ==
    [sample_size |-> sample_size, n_colors |-> n_colors,
     max_iter |-> KMEANS_MAX_ITER, random_state |-> KMEANS_RANDOM_STATE]

\* apply_color_scheme(clustering_data, color_schemes[theme], preserve_brightness)
apply_color_scheme(cd, theme, pb) ==
    [theme |-> theme, sample_size |-> cd.sample_size, n_colors |-> cd.n_colors,
     max_iter |-> cd.max_iter, random_state |-> cd.random_state,
     preserve_brightness |-> pb]

(***************************************************************************)
(* ImageCache                                                              *)
(***************************************************************************)
RECURSIVE ListRemove(_, _)
\* list.remove(x): drops the first occurrence of x
ListRemove(seq, x) ==
    IF seq = <<>> THEN <<>>
    ELSE IF Head(seq) = x THEN Tail(seq)
    ELSE <<Head(seq)>> \o ListRemove(Tail(seq), x)

\* dict without one key
DictDel(d, key) == [k \in DOMAIN d \ {key} |-> d[k]]

\* dict with d[key] = value
DictSet(d, key, value) ==
    [k \in DOMAIN d \cup {key} |-> IF k = key THEN value ELSE d[k]]

EmptyDict == [k \in {} |-> NoImage]

\* ImageCache(max_size)
NewImageCache(max_size) ==
    [cache |-> EmptyDict, access_order |-> <<>>, max_size |-> max_size]

\* faulty variant: get returns the image and leaves the recency list alone
CacheGetMutNoTouch(c, key) ==
    IF key \in DOMAIN c.cache
    THEN [c |-> c, ret |-> c.cache[key]]
    ELSE [c |-> c, ret |-> NoImage]

\* ImageCache.get: the cache after the call and the value returned
CacheGet(c, key) ==
    IF key \in DOMAIN c.cache
    THEN [c   |-> [c EXCEPT !.access_order = Append(ListRemove(@, key), key)],
          ret |-> c.cache[key]]
    ELSE [c |-> c, ret |-> NoImage]

\* faulty variant: eviction starts one entry too late ("> max_size")
CachePutMutOffByOne(c, key, image) ==
    LET c1 == IF key \in DOMAIN c.cache
              THEN [c EXCEPT !.access_order = ListRemove(@, key)]
              ELSE IF Cardinality(DOMAIN c.cache) > c.max_size
              THEN [c EXCEPT !.access_order = Tail(@),
                             !.cache = DictDel(@, Head(c.access_order))]
              ELSE c
    IN  [c1 EXCEPT !.cache = DictSet(@, key, image),
                   !.access_order = Append(@, key)]

\* faulty variant: the most recently used entry is evicted ("pop()")
CachePutMutEvictNewest(c, key, image) ==
    LET n  == Len(c.access_order)
        c1 == IF key \in DOMAIN c.cache
              THEN [c EXCEPT !.access_order = ListRemove(@, key)]
              ELSE IF Cardinality(DOMAIN c.cache) >= c.max_size
              THEN [c EXCEPT !.access_order = SubSeq(@, 1, n - 1),
                             !.cache = DictDel(@, c.access_order[n])]
              ELSE c
    IN  [c1 EXCEPT !.cache = DictSet(@, key, image),
                   !.access_order = Append(@, key)]

\* faulty variant: the capacity is tested before the presence of the key
CachePutMutEvictOnRefresh(c, key, image) ==
    LET c1 == IF Cardinality(DOMAIN c.cache) >= c.max_size
              THEN [c EXCEPT !.access_order = Tail(@),
                             !.cache = DictDel(@, Head(c.access_order))]
              ELSE IF key \in DOMAIN c.cache
              THEN [c EXCEPT !.access_order = ListRemove(@, key)]
              ELSE c
    IN  [c1 EXCEPT !.cache = DictSet(@, key, image),
                   !.access_order = Append(ListRemove(@, key), key)]

\* ImageCache.put
CachePut(c, key, image) ==
    LET c1 == IF key \in DOMAIN c.cache
              THEN [c EXCEPT !.access_order = ListRemove(@, key)]
              ELSE IF Cardinality(DOMAIN c.cache) >= c.max_size
              THEN [c EXCEPT !.access_order = Tail(@),
                             !.cache = DictDel(@, Head(c.access_order))]
              ELSE c
    IN  [c1 EXCEPT !.cache = DictSet(@, key, image),
                   !.access_order = Append(@, key)]


(***************************************************************************)
(* The application.  A handler is a function of the control thread's state *)
(* s (a record of the fields below) to the state it leaves; s.trace lists  *)
(* the statements it executed, in order (it is not part of the state).    *)
(***************************************************************************)
Start ==
    [image_cache |-> image_cache,
     current_processing_theme |-> current_processing_theme,
     preview |-> preview,
     original_image |-> original_image,
     clustering_data |-> clustering_data,
     sampling_size |-> sampling_size,
     color_count |-> color_count,
     max_iterations |-> max_iterations,
     preserve_brightness |-> preserve_brightness,
     settings_panel |-> settings_panel,
     highlighted |-> highlighted,
     filtered_themes |-> filtered_themes,
     preload_timer |-> preload_timer,
     queue |-> queue,
     submissions |-> <<>>,
     trace |-> <<>>]

Commit(s) ==
    /\ image_cache' = s.image_cache
    /\ current_processing_theme' = s.current_processing_theme
    /\ preview' = s.preview
    /\ original_image' = s.original_image
    /\ clustering_data' = s.clustering_data
    /\ sampling_size' = s.sampling_size
    /\ color_count' = s.color_count
    /\ max_iterations' = s.max_iterations
    /\ preserve_brightness' = s.preserve_brightness
    /\ settings_panel' = s.settings_panel
    /\ highlighted' = s.highlighted
    /\ filtered_themes' = s.filtered_themes
    /\ preload_timer' = s.preload_timer
    /\ queue' = s.queue
    /\ submitted' = IF record_submissions
                    THEN submitted \o s.submissions
                    ELSE submitted

\* one executed statement, appended to the handler's trace
Ev(s, op, theme) == [s EXCEPT !.trace = Append(@, <<op, theme>>)]

\* the four pipeline parameters the application stores
Parameters(ss, cc, mi, pb) ==
    [sampling_size |-> ss, color_count |-> cc, max_iterations |-> mi,
     preserve_brightness |-> pb]

Defaults ==
    Parameters(DEFAULT_SAMPLING_SIZE, DEFAULT_COLOR_COUNT,
               DEFAULT_MAX_ITERATIONS, DEFAULT_PRESERVE_BRIGHTNESS)

\* Preview.update_image
PreviewUpdateImage(s, theme_name, image) ==
    Ev([s EXCEPT !.preview = [current_theme |-> theme_name,
                              current_image |-> image]],
       "publish", theme_name)

\* App.update_preview
UpdatePreview(s, theme_name, image) == PreviewUpdateImage(s, theme_name, image)

\* faulty variant: a submission made while no pool thread is idle is refused
SubmitMutRefusedWhenBusy(s, theme_name, origin) ==
    IF BagCardinality(running) >= MAX_WORKERS
    THEN Ev(s, "submit", theme_name)
    ELSE Ev([s EXCEPT !.queue = Append(@, theme_name),
                      !.submissions = Append(@, [origin |-> origin,
                          clustering_data |-> s.clustering_data,
                          preserve_brightness |-> s.preserve_brightness])],
            "submit", theme_name)

\* self.executor.submit(self._process_theme_background, theme_name); origin
\* is the method that makes the call
Submit(s, theme_name, origin) ==
    Ev([s EXCEPT !.queue = Append(@, theme_name),
                 !.submissions = Append(@, [origin |-> origin,
                     clustering_data |-> s.clustering_data,
                     preserve_brightness |-> s.preserve_brightness])],
       "submit", theme_name)

\* self.notify(...)
Notify(s, severity) == Ev(s, severity, NoTheme)

\* faulty variant: the result is cached only when it is published
UpdateProcessedThemeMutPutIfCurrent(s, theme_name, image) ==
    LET s2 == Ev(Ev(s, "acquire", NoTheme), "check", theme_name)
        s3 == IF s2.current_processing_theme = theme_name
              THEN Ev([UpdatePreview(
                          Ev([s2 EXCEPT !.image_cache =
                                 CachePut(@, theme_name, image)],
                             "put", theme_name),
                          theme_name, image)
                         EXCEPT !.current_processing_theme = NoTheme],
                      "clear_current", theme_name)
              ELSE s2
    IN  Ev(s3, "release", NoTheme)

\* faulty variant: the result is published without the check of the current target
UpdateProcessedThemeMutNoCheck(s, theme_name, image) ==
    LET s1 == Ev([s EXCEPT !.image_cache = CachePut(@, theme_name, image)],
                 "put", theme_name)
        s2 == Ev(s1, "acquire", NoTheme)
        s3 == Ev([UpdatePreview(s2, theme_name, image)
                    EXCEPT !.current_processing_theme = NoTheme],
                 "clear_current", theme_name)
    IN  Ev(s3, "release", NoTheme)

\* App._update_processed_theme
UpdateProcessedTheme(s, theme_name, image) ==
    LET s1 == Ev([s EXCEPT !.image_cache = CachePut(@, theme_name, image)],
                 "put", theme_name)
        s2 == Ev(Ev(s1, "acquire", NoTheme), "check", theme_name)
        s3 == IF s2.current_processing_theme = theme_name
              THEN Ev([UpdatePreview(s2, theme_name, image)
                         EXCEPT !.current_processing_theme = NoTheme],
                      "clear_current", theme_name)
              ELSE s2
    IN  Ev(s3, "release", NoTheme)

\* faulty variant: a job is submitted on a cache hit too
LoadThemeImageMutAlwaysSubmit(s, theme_name) ==
    IF ~s.original_image \/ s.clustering_data = NoClusters
    THEN s
    ELSE LET g  == CacheGet(s.image_cache, theme_name)
             s1 == Ev([s EXCEPT !.image_cache = g.c], "get", theme_name)
             s2 == IF g.ret # NoImage
                   THEN PreviewUpdateImage(s1, theme_name, g.ret)
                   ELSE s1
             s3 == Ev(s2, "acquire", NoTheme)
             s4 == Ev([s3 EXCEPT !.current_processing_theme = theme_name],
                      "set_current", theme_name)
             s5 == Ev(s4, "release", NoTheme)
         IN  Submit(s5, theme_name, "load_theme_image")

\* faulty variant: the failure of a job is not reported
ReportJobErrorMutSilent(s, theme_name) == Ev(s, "job_failed", theme_name)

\* the callback of the except branch of _process_theme_background:
\* self.notify(f"Error processing {theme_name}: ...", severity="error")
ReportJobError(s, theme_name) ==
    Notify(Ev(s, "job_failed", theme_name), "error")

\* faulty variant: the test for the image and the clustering data is missing
LoadThemeImageMutNoGuard(s, theme_name) ==
    LET g  == CacheGet(s.image_cache, theme_name)
        s1 == Ev([s EXCEPT !.image_cache = g.c], "get", theme_name)
    IN  IF g.ret # NoImage
        THEN PreviewUpdateImage(s1, theme_name, g.ret)
        ELSE LET s2 == Ev(s1, "acquire", NoTheme)
                 s3 == Ev([s2 EXCEPT !.current_processing_theme = theme_name],
                          "set_current", theme_name)
                 s4 == Ev(s3, "release", NoTheme)
             IN  Submit(s4, theme_name, "load_theme_image")

\* App.load_theme_image
LoadThemeImage(s, theme_name) ==
    IF ~s.original_image \/ s.clustering_data = NoClusters
    THEN s
    ELSE LET g  == CacheGet(s.image_cache, theme_name)
             s1 == Ev([s EXCEPT !.image_cache = g.c], "get", theme_name)
         IN  IF g.ret # NoImage
             THEN PreviewUpdateImage(s1, theme_name, g.ret)
             ELSE LET s2 == Ev(s1, "acquire", NoTheme)
                      s3 == Ev([s2 EXCEPT !.current_processing_theme = theme_name],
                               "set_current", theme_name)
                      s4 == Ev(s3, "release", NoTheme)
                  IN  Submit(s4, theme_name, "load_theme_image")

\* the body of the preload loops: submit a job unless the cache has the theme
PreloadOne(s, theme_name) ==
    LET g  == CacheGet(s.image_cache, theme_name)
        s1 == Ev([s EXCEPT !.image_cache = g.c], "get", theme_name)
    IN  IF g.ret = NoImage THEN Submit(s1, theme_name, "preload") ELSE s1

RECURSIVE PreloadOffsets(_, _, _)
\* for offset in offsets: idx = current_idx + offset; if in range: PreloadOne
\* (Python indexes from 0, a TLA+ sequence from 1)
PreloadOffsets(s, current_idx, offsets) ==
    IF offsets = <<>> THEN s
    ELSE LET idx == current_idx + Head(offsets)
             s1  == IF 0 <= idx /\ idx < Len(s.filtered_themes)
                    THEN PreloadOne(s, s.filtered_themes[idx + 1])
                    ELSE s
         IN  PreloadOffsets(s1, current_idx, Tail(offsets))

\* list.index(x) for an x in the list
Index(list, x) == CHOOSE i \in 0..(Len(list) - 1) : list[i + 1] = x

\* faulty variant: the window reaches two themes to each side only
PreloadAdjacentThemesMutNarrow(s, current_theme) ==
    IF \E i \in 1..Len(s.filtered_themes) : s.filtered_themes[i] = current_theme
    THEN PreloadOffsets(s, Index(s.filtered_themes, current_theme),
                        <<-2, -1, 1, 2>>)
    ELSE s

\* App.preload_adjacent_themes
PreloadAdjacentThemes(s, current_theme) ==
    IF \E i \in 1..Len(s.filtered_themes) : s.filtered_themes[i] = current_theme
    THEN PreloadOffsets(s, Index(s.filtered_themes, current_theme),
                        <<-3, -2, -1, 1, 2, 3>>)
    ELSE s

\* App.aggressive_preload
AggressivePreloadBody(s) ==
    PreloadOffsets(s, IF s.highlighted = NoTheme THEN 0 ELSE s.highlighted - 1,
                   <<-5, -4, -3, -2, -1, 0, 1, 2, 3, 4, 5>>)

\* App.load_original_image; outcome: "ok", "no_image" (open or convert
\* raised), "no_clusters" (compute_image_clusters raised)
LoadOriginalImage(s, outcome) ==
    IF outcome = "ok"
    THEN [s EXCEPT !.original_image = TRUE,
                   !.clustering_data =
                       compute_image_clusters(s.sampling_size, s.color_count)]
    ELSE IF outcome = "no_clusters"
    THEN Notify([s EXCEPT !.original_image = TRUE], "error")
    ELSE Notify(s, "error")

\* App.on_mount
OnMount(s, outcome) ==
    LET s1 == LoadOriginalImage(s, outcome)
        first_theme == s1.filtered_themes[1]
        s2 == [s1 EXCEPT !.highlighted = first_theme]
        s3 == LoadThemeImage(s2, first_theme)
    IN  [s3 EXCEPT !.preload_timer = TRUE]

\* App.on_option_list_option_highlighted
OnOptionHighlighted(s, theme_name) ==
    LoadThemeImage([s EXCEPT !.highlighted = theme_name], theme_name)

\* App.on_option_list_option_selected
OnOptionSelected(s, theme_name) ==
    PreloadAdjacentThemes(LoadThemeImage(s, theme_name), theme_name)

\* faulty variant: only the lower limits are checked
ValidSettingsMutNoUpperLimit(v) ==
    /\ ~(v.sampling_size < MIN_SAMPLING_SIZE)
    /\ ~(v.color_count < MIN_COLOR_COUNT)
    /\ ~(v.max_iterations < MIN_MAX_ITERATIONS)

\* the range checks of App.apply_settings
ValidSettings(v) ==
    /\ ~(v.sampling_size < MIN_SAMPLING_SIZE \/ v.sampling_size > MAX_SAMPLING_SIZE)
    /\ ~(v.color_count < MIN_COLOR_COUNT \/ v.color_count > MAX_COLOR_COUNT)
    /\ ~(v.max_iterations < MIN_MAX_ITERATIONS
         \/ v.max_iterations > MAX_MAX_ITERATIONS)

\* faulty variant: the key stays in the recency list
CacheRemoveKeyMutKeepsOrder(c, key) ==
    IF key \in DOMAIN c.cache
    THEN [c EXCEPT !.cache = DictDel(@, key)]
    ELSE c

\* "del self.image_cache.cache[key]; self.image_cache.access_order.remove(key)"
CacheRemoveKey(c, key) ==
    IF key \in DOMAIN c.cache
    THEN [c EXCEPT !.cache = DictDel(@, key),
                   !.access_order = ListRemove(@, key)]
    ELSE c

\* App.apply_settings; v: the values of the three sliders and the checkbox
ApplySettings(s, v) ==
    IF ~ValidSettings(v)
    THEN Notify(s, "error")
    ELSE
    LET s1 == [s EXCEPT !.sampling_size = v.sampling_size,
                        !.color_count = v.color_count,
                        !.max_iterations = v.max_iterations,
                        !.preserve_brightness = v.preserve_brightness]
        s2 == [s1 EXCEPT !.settings_panel =
                  Parameters(s1.sampling_size, s1.color_count,
                             s1.max_iterations, s1.preserve_brightness)]
        s3 == IF /\ \/ s2.sampling_size # s2.settings_panel.sampling_size
                     \/ s2.color_count # s2.settings_panel.color_count
                 /\ s2.original_image
              THEN [s2 EXCEPT !.clustering_data =
                                  compute_image_clusters(s2.sampling_size,
                                                         s2.color_count),
                              !.image_cache = NewImageCache(CacheCap)]
              ELSE s2
        current_theme == s3.highlighted
    IN  IF current_theme # NoTheme
        THEN LET s4 == Ev([s3 EXCEPT !.image_cache =
                              CacheRemoveKey(@, current_theme)],
                          "remove", current_theme)
             IN  Notify(LoadThemeImage(s4, current_theme), "information")
        ELSE s3

\* faulty variant: the cache is replaced by an empty one
RestoreDefaultSettingsMutClearsCache(s) ==
    Notify([s EXCEPT !.sampling_size = DEFAULT_SAMPLING_SIZE,
                     !.color_count = DEFAULT_COLOR_COUNT,
                     !.max_iterations = DEFAULT_MAX_ITERATIONS,
                     !.preserve_brightness = DEFAULT_PRESERVE_BRIGHTNESS,
                     !.settings_panel = Defaults,
                     !.image_cache = NewImageCache(CacheCap)],
           "information")

\* App.restore_default_settings
RestoreDefaultSettings(s) ==
    Notify([s EXCEPT !.sampling_size = DEFAULT_SAMPLING_SIZE,
                     !.color_count = DEFAULT_COLOR_COUNT,
                     !.max_iterations = DEFAULT_MAX_ITERATIONS,
                     !.preserve_brightness = DEFAULT_PRESERVE_BRIGHTNESS,
                     !.settings_panel = Defaults],
           "information")

(***************************************************************************)
(* Inputs.                                                                 *)
(***************************************************************************)
\* what the sliders and the checkbox can hold when Apply is pressed
SettingsInputs ==
    { Defaults,
      Parameters(1000, 4, 50, FALSE),
      Parameters(999, 8, 100, TRUE),
      Parameters(100001, 8, 100, FALSE),
      Parameters(50000, 3, 100, FALSE),
      Parameters(50000, 17, 100, TRUE),
      Parameters(50000, 8, 49, FALSE),
      Parameters(50000, 8, 501, TRUE) }

MountOutcomes == {"ok", "no_image", "no_clusters"}

(***************************************************************************)
(* Spec: the application.                                                  *)
(***************************************************************************)
\* no call of apply_color_scheme or of compute_image_clusters is observed
NoRecolor == [done |-> FALSE]

NoExtract == [runs |-> <<>>]

\* the sizes of the images are not observed
NoDisplay == [objects |-> <<>>]

\* no ImageCache call observed yet
NoCall ==
    [op |-> "none", key |-> NoTheme, hit |-> FALSE, was_oldest |-> FALSE,
     dropped |-> {}]

HistoryUnchanged ==
    UNCHANGED <<recency, last_put, ret, last_op, prev_op, record_submissions,
                recolor, extract, display>>

\* the theme names of color_schemes: 1 .. n
ThemeList(n) == [i \in 1..n |-> i]

\* App.__init__ and Themes.__init__ with n themes; record: whether the
\* history of submissions is kept
AppConstructed(n, record) ==
    /\ image_cache = NewImageCache(CacheCap)
    /\ current_processing_theme = NoTheme
    /\ preview = [current_theme |-> NoTheme, current_image |-> NoImage]
    /\ original_image = FALSE
    /\ clustering_data = NoClusters
    /\ sampling_size = DEFAULT_SAMPLING_SIZE
    /\ color_count = DEFAULT_COLOR_COUNT
    /\ max_iterations = DEFAULT_MAX_ITERATIONS
    /\ preserve_brightness = DEFAULT_PRESERVE_BRIGHTNESS
    /\ settings_panel = Defaults
    /\ highlighted = NoTheme
    /\ filtered_themes = ThemeList(n)
    /\ phase = "constructed"
    /\ preload_timer = FALSE
    /\ queue = <<>>
    /\ running = EmptyBag
    /\ record_submissions = record
    /\ submitted = <<>>
    /\ recency = <<>>
    /\ last_put = EmptyDict
    /\ ret = NoImage
    /\ last_op = NoCall
    /\ prev_op = NoCall

\* the App's specifications observe no call of the recolor pipeline
Constructed(n, record) ==
    /\ AppConstructed(n, record)
    /\ recolor = NoRecolor
    /\ extract = NoExtract
    /\ display = NoDisplay

Init == Constructed(NThemes, FALSE)

\* a handler of the control thread leaving state s
Handler(s) ==
    /\ Len(s.queue) <= MaxQueue
    /\ Commit(s)
    /\ UNCHANGED <<phase, running>>
    /\ HistoryUnchanged

Mount ==
    /\ phase = "constructed"
    /\ \E outcome \in MountOutcomes : Commit(OnMount(Start, outcome))
    /\ phase' = "running"
    /\ UNCHANGED running
    /\ HistoryUnchanged

Highlight ==
    /\ phase = "running"
    /\ \E i \in 1..Len(filtered_themes) :
           Handler(OnOptionHighlighted(Start, filtered_themes[i]))

Select ==
    /\ phase = "running"
    /\ highlighted # NoTheme
    /\ Handler(OnOptionSelected(Start, highlighted))

AggressivePreload ==
    /\ phase = "running"
    /\ preload_timer
    /\ Handler(AggressivePreloadBody([Start EXCEPT !.preload_timer = FALSE]))

Apply ==
    /\ phase = "running"
    /\ \E v \in SettingsInputs : Handler(ApplySettings(Start, v))

Restore ==
    /\ phase = "running"
    /\ Handler(RestoreDefaultSettings(Start))

\* faulty variant: the pool starts one thread more than max_workers
PoolHasIdleThreadMutOneMore == BagCardinality(running) <= MAX_WORKERS

\* ThreadPoolExecutor(max_workers=2): a thread of the pool is free to take a
\* job from the queue
PoolHasIdleThread == BagCardinality(running) < MAX_WORKERS

\* a pool thread takes the next job and runs _process_theme_background up to
\* its call_from_thread; ok: the body of its try block does not raise
WorkerRun ==
    /\ PoolHasIdleThread
    /\ queue # <<>>
    /\ queue' = Tail(queue)
    /\ submitted' = IF record_submissions THEN Tail(submitted) ELSE submitted
    /\ LET theme_name == Head(queue)
           origin == IF record_submissions
                     THEN Head(submitted).origin
                     ELSE "unrecorded"
       IN  IF ~original_image \/ clustering_data = NoClusters
           THEN UNCHANGED running
           ELSE \E ok \in BOOLEAN :
                  running' = running (+) SetToBag({
                    IF ok
                    THEN [st |-> "computed", theme |-> theme_name,
                          origin |-> origin,
                          image |-> apply_color_scheme(clustering_data,
                                       theme_name, preserve_brightness)]
                    ELSE [st |-> "failed", theme |-> theme_name,
                          origin |-> origin, image |-> NoImage]})
    /\ UNCHANGED <<image_cache, current_processing_theme, preview,
                   original_image, clustering_data, sampling_size,
                   color_count, max_iterations, preserve_brightness,
                   settings_panel, highlighted, filtered_themes, phase,
                   preload_timer>>
    /\ HistoryUnchanged

\* call_from_thread(self._update_processed_theme, theme_name, recolored)
DeliverJob(job) ==
    /\ phase = "running"
    /\ job.st = "computed"
    /\ BagIn(job, running)
    /\ Commit(UpdateProcessedTheme(Start, job.theme, job.image))
    /\ running' = running (-) SetToBag({job})
    /\ UNCHANGED phase
    /\ HistoryUnchanged

Deliver == \E job \in BagToSet(running) : DeliverJob(job)

\* call_from_thread(self.notify, ..., severity="error")
DeliverErrorJob(job) ==
    /\ phase = "running"
    /\ job.st = "failed"
    /\ BagIn(job, running)
    /\ Commit(ReportJobError(Start, job.theme))
    /\ running' = running (-) SetToBag({job})
    /\ UNCHANGED phase
    /\ HistoryUnchanged

DeliverError == \E job \in BagToSet(running) : DeliverErrorJob(job)

Next ==
    \/ Mount
    \/ Highlight
    \/ Select
    \/ AggressivePreload
    \/ Apply
    \/ Restore
    \/ WorkerRun
    \/ Deliver
    \/ DeliverError

Spec == Init /\ [][Next]_vars

\* App.on_unmount: the control thread calls self.executor.shutdown(wait=True)
Unmount ==
    /\ phase = "running"
    /\ phase' = "unmounting"
    /\ Commit(Start)
    /\ UNCHANGED running
    /\ HistoryUnchanged

\* shutdown(wait=True) returns: no job is queued and every pool thread has
\* finished its job
UnmountReturn ==
    /\ phase = "unmounting"
    /\ queue = <<>>
    /\ running = EmptyBag
    /\ phase' = "unmounted"
    /\ Commit(Start)
    /\ UNCHANGED running
    /\ HistoryUnchanged

\* SpecUnmount: Spec with the end of the application
NextUnmount ==
    \/ Mount
    \/ Highlight
    \/ Select
    \/ AggressivePreload
    \/ Apply
    \/ Restore
    \/ WorkerRun
    \/ Deliver
    \/ DeliverError
    \/ Unmount
    \/ UnmountReturn

SpecUnmount == Init /\ [][NextUnmount]_vars

\* the jobs a pool thread can hold
JobValues ==
    UNION { { [st |-> "failed", theme |-> T, origin |-> o, image |-> NoImage] }
            \cup { [st |-> "computed", theme |-> T, origin |-> o,
                    image |-> apply_color_scheme(
                        compute_image_clusters(DEFAULT_SAMPLING_SIZE,
                                               DEFAULT_COLOR_COUNT), T, pb)] :
                    pb \in BOOLEAN } :
            T \in Themes, o \in {"unrecorded"} }

\* Spec with the scheduling the platform guarantees: an idle pool thread
\* takes the next queued job, and the control thread's event loop runs every
\* callback handed to it with call_from_thread
SpecFair ==
    /\ Init
    /\ [][Next]_vars
    /\ WF_vars(WorkerRun)
    /\ \A job \in JobValues :
          WF_vars(DeliverJob(job)) /\ WF_vars(DeliverErrorJob(job))

\* a job starts on a pool thread and apply_color_scheme does not raise
WorkerRunOk ==
    /\ WorkerRun
    /\ \A job \in BagToSet(running') : job.st = "computed"

\* SpecSelections: the user only moves the highlight and selects, and no job
\* fails
NextSelections ==
    \/ Mount
    \/ Highlight
    \/ Select
    \/ AggressivePreload
    \/ WorkerRunOk
    \/ Deliver

SpecSelections == Init /\ [][NextSelections]_vars

\* SpecSettings: the user only applies settings to the theme highlighted at
\* the mount, and no job fails
NextSettings ==
    \/ Mount
    \/ AggressivePreload
    \/ Apply
    \/ WorkerRunOk
    \/ Deliver

SpecSettings == Init /\ [][NextSettings]_vars

\* SpecUnmount with the same scheduling, and shutdown(wait=True) returning
\* once the pool has nothing left to do
SpecUnmountFair ==
    /\ Init
    /\ [][NextUnmount]_vars
    /\ WF_vars(WorkerRun)
    /\ WF_vars(UnmountReturn)
    /\ \A job \in JobValues :
          WF_vars(DeliverJob(job)) /\ WF_vars(DeliverErrorJob(job))

\* SpecPreload: the application with PreloadThemes themes, enough for the
\* offsets of preload_adjacent_themes; the user moves the highlight and
\* selects when the pool has come to rest
InitPreload == Constructed(PreloadThemes, FALSE)

\* a handler of the control thread leaving state s
HandlerAtRest(s) ==
    /\ Len(queue) + BagCardinality(running) <= PreloadPending
    /\ Commit(s)
    /\ UNCHANGED <<phase, running>>
    /\ HistoryUnchanged

HighlightAtRest ==
    /\ phase = "running"
    /\ \E i \in 1..Len(filtered_themes) :
           HandlerAtRest(OnOptionHighlighted(Start, filtered_themes[i]))

SelectAtRest ==
    /\ phase = "running"
    /\ highlighted # NoTheme
    /\ HandlerAtRest(OnOptionSelected(Start, highlighted))

NextPreload ==
    \/ Mount
    \/ HighlightAtRest
    \/ SelectAtRest
    \/ WorkerRun
    \/ Deliver
    \/ DeliverError

SpecPreload == InitPreload /\ [][NextPreload]_vars

\* Spec with the history of submissions
InitJobs == Constructed(NThemes, TRUE)

SpecJobs == InitJobs /\ [][Next]_vars

(***************************************************************************)
(* SpecCache: one ImageCache, any capacity in 1..MaxCap, any sequence of   *)
(* get and put calls.  The history variables observe the calls: they are   *)
(* updated from the arguments and from the difference between the cache    *)
(* before and after, never from access_order.                              *)
(***************************************************************************)
CacheKeys == 1..NKeys

\* the images a caller may put under a key
CacheImages(key) ==
    { apply_color_scheme(
          compute_image_clusters(DEFAULT_SAMPLING_SIZE, DEFAULT_COLOR_COUNT),
          key, pb) : pb \in BOOLEAN }

\* position of key in the history of accesses (0: never accessed)
RecencyPos(key) ==
    IF \E i \in 1..Len(recency) : recency[i] = key
    THEN CHOOSE i \in 1..Len(recency) : recency[i] = key
    ELSE 0

\* key is stored and no stored key was accessed longer ago
LeastRecentlyUsed(key) ==
    /\ key \in DOMAIN image_cache.cache
    /\ \A k \in DOMAIN image_cache.cache : RecencyPos(key) <= RecencyPos(k)

\* what a call with this key is observed to do
Observe(op, key) ==
    [op |-> op, key |-> key, hit |-> key \in DOMAIN image_cache.cache,
     was_oldest |-> LeastRecentlyUsed(key),
     dropped |-> DOMAIN image_cache.cache \ DOMAIN image_cache'.cache]

AppUnchanged ==
    UNCHANGED <<current_processing_theme, preview, original_image,
                clustering_data, sampling_size, color_count, max_iterations,
                preserve_brightness, settings_panel, highlighted, phase,
                preload_timer, queue, running, record_submissions,
                submitted, filtered_themes,
                recolor, extract, display>>

InitCache ==
    /\ \E max_size \in 1..MaxCap : image_cache = NewImageCache(max_size)
    /\ current_processing_theme = NoTheme
    /\ preview = [current_theme |-> NoTheme, current_image |-> NoImage]
    /\ original_image = FALSE
    /\ clustering_data = NoClusters
    /\ sampling_size = DEFAULT_SAMPLING_SIZE
    /\ color_count = DEFAULT_COLOR_COUNT
    /\ max_iterations = DEFAULT_MAX_ITERATIONS
    /\ preserve_brightness = DEFAULT_PRESERVE_BRIGHTNESS
    /\ settings_panel = Defaults
    /\ highlighted = NoTheme
    /\ filtered_themes = ThemeList(NThemes)
    /\ phase = "constructed"
    /\ preload_timer = FALSE
    /\ queue = <<>>
    /\ running = EmptyBag
    /\ record_submissions = FALSE
    /\ submitted = <<>>
    /\ recency = <<>>
    /\ last_put = EmptyDict
    /\ ret = NoImage
    /\ last_op = NoCall
    /\ prev_op = NoCall
    /\ recolor = NoRecolor
    /\ extract = NoExtract
    /\ display = NoDisplay

\* image_cache.get(key)
GetCall ==
    \E key \in CacheKeys :
        LET g == CacheGet(image_cache, key)
        IN  /\ image_cache' = g.c
            /\ ret' = g.ret
            /\ recency' = Append(ListRemove(recency, key), key)
            /\ last_op' = Observe("get", key)
            /\ prev_op' = last_op
            /\ UNCHANGED last_put
            /\ AppUnchanged

\* image_cache.put(key, image)
PutCall ==
    \E key \in CacheKeys :
        \E image \in CacheImages(key) :
            /\ image_cache' = CachePut(image_cache, key, image)
            /\ ret' = NoImage
            /\ recency' = Append(ListRemove(recency, key), key)
            /\ last_put' = DictSet(last_put, key, image)
            /\ last_op' = Observe("put", key)
            /\ prev_op' = last_op
            /\ AppUnchanged

NextCache == GetCall \/ PutCall

SpecCache == InitCache /\ [][NextCache]_vars

\* apply_settings removes the key of the highlighted theme from the cache
\* directly (app.py 477-479)
RemoveCall ==
    \E key \in CacheKeys :
        /\ image_cache' = CacheRemoveKey(image_cache, key)
        /\ ret' = NoImage
        /\ recency' = ListRemove(recency, key)
        /\ last_op' = Observe("remove", key)
        /\ prev_op' = last_op
        /\ last_put' = IF key \in DOMAIN last_put THEN DictDel(last_put, key)
                       ELSE last_put
        /\ AppUnchanged

\* SpecCacheRemoval: SpecCache with the direct removals
NextCacheRemoval == GetCall \/ PutCall \/ RemoveCall

SpecCacheRemoval == InitCache /\ [][NextCacheRemoval]_vars

(***************************************************************************)
(* The recolor pipeline of clustering.py.  A colour is a triple of channel *)
(* values.  The arithmetic is exact: a scaled channel is a fraction        *)
(* num / den, and the rounding of float32 is not modelled.  Indices start  *)
(* at 1 where numpy's start at 0.                                          *)
(***************************************************************************)
BLACK == <<0, 0, 0>>
RED == <<255, 0, 0>>
GREEN == <<0, 255, 0>>
WHITE == <<255, 255, 255>>
DIM == <<1, 0, 0>>

Channels == 1..3

\* np.mean(colours, axis=1), times 3: the channel sum orders the colours as
\* their mean does, and the factor cancels in the brightness ratio
Brightness(colour) == colour[1] + colour[2] + colour[3]

BrightnessOf(colours) == [i \in 1..Len(colours) |-> Brightness(colours[i])]

Orders(n) ==
    {p \in [1..n -> 1..n] : \A i, j \in 1..n : p[i] = p[j] => i = j}

\* faulty variant: the keys are not sorted at all
ArgsortsMutUnsorted(keys) == Orders(Len(keys))

\* np.argsort(keys): the default sort is not stable, so equal keys come in
\* an order the build chooses
Argsorts(keys) ==
    {p \in Orders(Len(keys)) :
        \A i, j \in 1..Len(keys) : i < j => keys[p[i]] <= keys[p[j]]}

\* np.sum(diff * diff), diff = a - b
SquaredDistance(a, b) ==
    (a[1] - b[1]) * (a[1] - b[1]) + (a[2] - b[2]) * (a[2] - b[2])
        + (a[3] - b[3]) * (a[3] - b[3])

\* faulty variant: the first index, minimum or not
ArgminMutFirstIndex(values) == 1

\* np.argmin(values): the first index of a minimum
Argmin(values) ==
    CHOOSE i \in 1..Len(values) :
        /\ \A j \in 1..Len(values) : values[i] <= values[j]
        /\ \A j \in 1..(i - 1) : values[j] > values[i]

Min(a, b) == IF a <= b THEN a ELSE b

Abs(x) == IF x < 0 THEN -x ELSE x

\* the rank i of centre dom_idx: dom_order[i] = dom_idx
RankOf(order, idx) == CHOOSE i \in 1..Len(order) : order[i] = idx

\* faulty variant: the centres are taken in index order, not in brightness
\* order
PaletteIndexMutUnranked(dominant_colors, color_scheme, dom_order, theme_order) ==
    LET min_len == Min(Len(dom_order), Len(theme_order))
        distances(dom_idx) ==
            [k \in 1..Len(color_scheme) |->
                SquaredDistance(color_scheme[k], dominant_colors[dom_idx])]
    IN  [dom_idx \in 1..Len(dominant_colors) |->
            IF dom_idx <= min_len THEN theme_order[dom_idx]
            ELSE Argmin(distances(dom_idx))]

\* The palette index whose colour lines 59-73 store in mapping[dom_idx]:
\* by rank up to min_len, by least squared distance beyond it.
PaletteIndex(dominant_colors, color_scheme, dom_order, theme_order) ==
    LET min_len == Min(Len(dom_order), Len(theme_order))
        distances(dom_idx) ==
            [k \in 1..Len(color_scheme) |->
                SquaredDistance(color_scheme[k], dominant_colors[dom_idx])]
    IN  [dom_idx \in 1..Len(dominant_colors) |->
            LET i == RankOf(dom_order, dom_idx)
            IN  IF i <= min_len THEN theme_order[i]
                ELSE Argmin(distances(dom_idx))]

\* new_pixels *= brightness_ratio, one channel: the ratio is
\* original_brightness / np.maximum(new_brightness, 1e-6).  A palette colour
\* has integer channels, so its mean is 0 or at least 1/3: the maximum is
\* 1e-6 only for black, whose channels stay 0 whatever the ratio.
Scaled(channel, original_brightness, new_brightness) ==
    IF new_brightness = 0 THEN [num |-> 0, den |-> 1]
    ELSE [num |-> channel * original_brightness, den |-> new_brightness]

\* faulty variant: the scaled value is not clipped
ClipMutNone(x) == x

\* np.clip(x, 0, 255)
Clip(x) ==
    IF x.num > 255 * x.den THEN [num |-> 255, den |-> 1]
    ELSE IF x.num < 0 THEN [num |-> 0, den |-> 1]
    ELSE x

\* astype(np.uint8): the fraction is cut off, the integer kept modulo 2^8
AsUint8(x) == (x.num \div x.den) % 256

Whole(channel) == [num |-> channel, den |-> 1]

\* faulty variant: the colour is scaled whatever the flag says
NewPixelMutAlwaysScaled(pixel, colour, pb) ==
    [ch \in Channels |->
        AsUint8(Clip(Scaled(colour[ch], Brightness(pixel),
                            Brightness(colour))))]

\* lines 75-86 for one pixel: the colour of its label, scaled and clipped when
\* preserve_brightness is on, then converted
NewPixel(pixel, colour, pb) ==
    IF pb
    THEN [ch \in Channels |->
            AsUint8(Clip(Scaled(colour[ch], Brightness(pixel),
                                Brightness(colour))))]
    ELSE [ch \in Channels |-> AsUint8(Whole(colour[ch]))]

\* faulty variant: the brightness pass scales the pixel matrix of the
\* clustering data in place
ApplyColorSchemeMutInPlace(r) ==
    LET palette_index == PaletteIndex(r.dominant_colors, r.color_scheme,
                                      r.dom_order, r.theme_order)
        mapping == [c \in 1..Len(r.dominant_colors) |->
                        r.color_scheme[palette_index[c]]]
        new_pixels == [p \in 1..Len(r.pixels_float) |->
                        NewPixel(r.pixels_float[p], mapping[r.labels[p]],
                                 r.preserve_brightness)]
    IN  [r EXCEPT !.palette_index = palette_index,
                  !.mapping = mapping,
                  !.new_image = new_pixels,
                  !.pixels_float = IF r.preserve_brightness THEN new_pixels
                                   ELSE @,
                  !.done = TRUE]

\* apply_color_scheme: r holds the arguments and what np.argsort returned;
\* the result holds the locals mapping and new_pixels as well.  mapping and
\* new_pixels are new arrays (np.empty_like, mapping[labels]): the
\* arguments are as they were.
ApplyColorScheme(r) ==
    LET palette_index == PaletteIndex(r.dominant_colors, r.color_scheme,
                                      r.dom_order, r.theme_order)
        mapping == [c \in 1..Len(r.dominant_colors) |->
                        r.color_scheme[palette_index[c]]]
        new_pixels == [p \in 1..Len(r.pixels_float) |->
                        NewPixel(r.pixels_float[p], mapping[r.labels[p]],
                                 r.preserve_brightness)]
    IN  [r EXCEPT !.palette_index = palette_index,
                  !.mapping = mapping,
                  !.new_image = new_pixels,
                  !.done = TRUE]

\* kmeans.predict(pixels_float): every pixel gets a nearest centre
Predict(pixels, centres) ==
    {labels \in [1..Len(pixels) -> 1..Len(centres)] :
        \A p \in 1..Len(pixels), c \in 1..Len(centres) :
            SquaredDistance(pixels[p], centres[labels[p]])
                <= SquaredDistance(pixels[p], centres[c])}

ColourLists(colours, lo, hi) == UNION {[1..n -> colours] : n \in lo..hi}

\* the arguments of one call, nothing computed yet
Call(pixels, labels, centres, palette, dom_order, theme_order, pb) ==
    [pixels_float |-> pixels, labels |-> labels, dominant_colors |-> centres,
     color_scheme |-> palette, preserve_brightness |-> pb,
     dom_order |-> dom_order, theme_order |-> theme_order,
     palette_index |-> <<>>, mapping |-> <<>>, new_image |-> <<>>,
     done |-> FALSE]

\* The inputs of a call: centres, palette and pixels drawn from small sets
\* of colours, each pixel labelled with a nearest centre, and the orders
\* np.argsort gives for the two brightness lists.
PipelineInputs(colours, pixel_colours, max_k, max_m, n_pixels, flags) ==
    \E centres \in ColourLists(colours, 1, max_k),
       palette \in ColourLists(colours, 1, max_m),
       pixels \in ColourLists(pixel_colours, n_pixels, n_pixels),
       pb \in flags :
        \E dom_order \in Argsorts(BrightnessOf(centres)),
           theme_order \in Argsorts(BrightnessOf(palette)),
           labels \in Predict(pixels, centres) :
            recolor = Call(pixels, labels, centres, palette,
                           dom_order, theme_order, pb)

PipelineFrame ==
    UNCHANGED <<image_cache, current_processing_theme, preview,
                original_image, clustering_data, sampling_size, color_count,
                max_iterations, preserve_brightness, settings_panel,
                highlighted, filtered_themes, phase, preload_timer, queue,
                running, record_submissions, submitted,
                recency, last_put, ret, last_op, prev_op, display>>

\* a job applies the palette to the shared clustering data (app.py 298-302);
\* later jobs of the same theme apply it again
ApplyJob ==
    /\ recolor' = ApplyColorScheme(recolor)
    /\ UNCHANGED extract
    /\ PipelineFrame

NextRecolor == ApplyJob

\* the palette mapping alone: up to MapperK centres, up to MapperM palette
\* colours, no pixels
MapperColours == {BLACK, RED, GREEN, WHITE}

InitMapper ==
    /\ AppConstructed(NThemes, FALSE)
    /\ extract = NoExtract
    /\ display = NoDisplay
    /\ PipelineInputs(MapperColours, {}, MapperK, MapperM, 0, {FALSE})

SpecMapper == InitMapper /\ [][NextRecolor]_vars

\* the whole call on RecolorPixels pixels
RecolorColours == {BLACK, RED, WHITE}

PixelColours == RecolorColours \cup {DIM}

InitRecolor ==
    /\ AppConstructed(NThemes, FALSE)
    /\ extract = NoExtract
    /\ display = NoDisplay
    /\ PipelineInputs(RecolorColours, PixelColours, RecolorK, RecolorM,
                      RecolorPixels, BOOLEAN)

SpecRecolor == InitRecolor /\ [][NextRecolor]_vars

(***************************************************************************)
(* compute_image_clusters (clustering.py 10-40) on an image given as the   *)
(* list of its pixels.  KMeans is the library's: what it fits is kept as   *)
(* the term of its arguments, so two fits are equal when their arguments   *)
(* are.  sample_size is scaled down to the size of the images.             *)
(***************************************************************************)
\* faulty variant: an image of exactly sample_size pixels is sampled too
NeedsSampleMutAtEquality(n_pixels, sample_size) == n_pixels >= sample_size

\* line 20: len(pixels) > sample_size
NeedsSample(n_pixels, sample_size) == n_pixels > sample_size

\* rng.choice(len(pixels), sample_size, replace=False) of a generator that
\* is not seeded: sample_size different indices, in any order
Choices(n_pixels, sample_size) ==
    {c \in [1..sample_size -> 1..n_pixels] :
        \A i, j \in 1..sample_size : c[i] = c[j] => i = j}

\* the indices the call may draw: none when every pixel is used
SampleIndices(n_pixels, sample_size) ==
    IF NeedsSample(n_pixels, sample_size) THEN Choices(n_pixels, sample_size)
    ELSE {<<>>}

\* KMeans(n_clusters, random_state, n_init="auto", init="k-means++",
\* max_iter).fit(sample_pixels)
KMeansFit(sample_pixels, n_clusters, random_state, max_iter) ==
    [sample_pixels |-> sample_pixels, n_clusters |-> n_clusters,
     random_state |-> random_state, max_iter |-> max_iter]

\* the body of compute_image_clusters for the indices the generator gave
ComputeImageClusters(pixels, sample_size, n_colors, sample_indices) ==
    LET sample_pixels ==
            IF NeedsSample(Len(pixels), sample_size)
            THEN [i \in 1..sample_size |-> pixels[sample_indices[i]]]
            ELSE pixels
        kmeans == KMeansFit(sample_pixels, n_colors, KMEANS_RANDOM_STATE,
                            KMEANS_MAX_ITER)
    IN  [pixels_float |-> pixels,
         labels |-> [predict |-> pixels, kmeans |-> kmeans],
         dominant_colors |-> [cluster_centers_ |-> kmeans]]

\* an image of up to ExtractPixels pixels; KMeans needs at least n_colors
\* pixels to fit
InitExtract ==
    /\ AppConstructed(NThemes, FALSE)
    /\ recolor = NoRecolor
    /\ display = NoDisplay
    /\ \E pixels \in ColourLists({BLACK, RED}, 1, ExtractPixels),
          sample_size \in 1..ExtractPixels, n_colors \in 1..2 :
        /\ n_colors <= Min(Len(pixels), sample_size)
        /\ extract = [pixels |-> pixels, sample_size |-> sample_size,
                      n_colors |-> n_colors, runs |-> <<>>]

\* one more call on the same image with the same arguments
ExtractRun ==
    /\ Len(extract.runs) < ExtractRuns
    /\ \E sample_indices \in SampleIndices(Len(extract.pixels),
                                            extract.sample_size) :
        extract' = [extract EXCEPT !.runs =
            Append(@, ComputeImageClusters(extract.pixels,
                        extract.sample_size, extract.n_colors,
                        sample_indices))]
    /\ UNCHANGED recolor
    /\ PipelineFrame

NextExtract == ExtractRun

SpecExtract == InitExtract /\ [][NextExtract]_vars

(***************************************************************************)
(* The sizes of the images.  A job's image is one object: the cache and    *)
(* the Preview hold references to it, and action_save writes the object    *)
(* the Preview refers to.  display.objects[id] is the size (width, height) *)
(* of object id.                                                           *)
(***************************************************************************)
NoObject == 0

NoSize == <<0, 0>>

\* sizes of the source image, within and beyond MAX_IMAGE_WIDTH x
\* MAX_IMAGE_HEIGHT
SourceSizes ==
    {<<800, 600>>, <<1200, 800>>, <<1201, 800>>, <<2400, 1600>>,
     <<1000, 1000>>, <<3000, 1000>>}

Max(a, b) == IF a >= b THEN a ELSE b

\* round_aspect of PIL for the width: floor or ceiling of y * w / h,
\* whichever n has n / y nearer to w / h (the floor when equal), at least 1
RoundWidth(w, h, y) ==
    LET lo == (y * w) \div h
        hi == (y * w + h - 1) \div h
    IN  Max(IF Abs(w * y - lo * h) <= Abs(w * y - hi * h) THEN lo ELSE hi, 1)

\* round_aspect of PIL for the height: floor or ceiling of x * h / w,
\* whichever n has x / n nearer to w / h, at least 1
RoundHeight(w, h, x) ==
    LET lo == (x * h) \div w
        hi == (x * h + w - 1) \div w
    IN  Max(IF lo = 0 \/ Abs(w * lo - x * h) * hi <= Abs(w * hi - x * h) * lo
            THEN lo ELSE hi, 1)

\* the size of an image after image.thumbnail((x, y), ..): the image is
\* shrunk in place to fit, keeping its aspect ratio
ThumbnailSize(size, x, y) ==
    LET w == size[1]
        h == size[2]
    IN  IF x >= w /\ y >= h THEN size
        ELSE IF x * h >= y * w THEN <<RoundWidth(w, h, y), y>>
        ELSE <<x, RoundHeight(w, h, x)>>

\* Preview.update_image(theme_name, image), preview.py 46-63
UpdateImage(d, theme_name, image) ==
    LET size == d.objects[image]
    IN  [d EXCEPT !.current_image = image,
                  !.current_theme = theme_name,
                  !.objects[image] =
                      IF size[1] > MAX_IMAGE_WIDTH \/ size[2] > MAX_IMAGE_HEIGHT
                      THEN ThumbnailSize(size, MAX_IMAGE_WIDTH,
                                         MAX_IMAGE_HEIGHT)
                      ELSE size]

InitDisplay ==
    /\ AppConstructed(NThemes, FALSE)
    /\ recolor = NoRecolor
    /\ extract = NoExtract
    /\ \E size \in SourceSizes :
        display = [source |-> size, objects |-> <<>>,
                   cache |-> [theme \in 1..NThemes |-> NoObject],
                   current_image |-> NoObject, current_theme |-> NoTheme,
                   saved |-> NoSize]

DisplayFrame ==
    UNCHANGED <<image_cache, current_processing_theme, preview,
                original_image, clustering_data, sampling_size, color_count,
                max_iterations, preserve_brightness, settings_panel,
                highlighted, filtered_themes, phase, preload_timer, queue,
                running, record_submissions, submitted,
                recency, last_put, ret, last_op, prev_op, recolor, extract>>

\* a job of theme_name completes: apply_color_scheme returns a new image of
\* the source's height and width (clustering.py 85-86), and
\* _update_processed_theme puts it into the cache and, when the theme is
\* the current target, hands it to the Preview
JobCompleted ==
    /\ Len(display.objects) < DisplayObjects
    /\ \E theme_name \in 1..NThemes, is_current \in BOOLEAN :
        LET image == Len(display.objects) + 1
            put == [display EXCEPT !.objects = Append(@, display.source),
                                   !.cache[theme_name] = image]
        IN  display' = IF is_current THEN UpdateImage(put, theme_name, image)
                       ELSE put
    /\ DisplayFrame

\* load_theme_image finds the theme in the cache (app.py 327-331)
CachedImageShown ==
    /\ \E theme_name \in 1..NThemes :
        /\ display.cache[theme_name] # NoObject
        /\ display' = UpdateImage(display, theme_name,
                                  display.cache[theme_name])
    /\ DisplayFrame

\* action_save: preview.current_image.save(filename, ..)
ActionSave ==
    /\ display.current_image # NoObject
    /\ display' = [display EXCEPT
                        !.saved = display.objects[display.current_image]]
    /\ DisplayFrame

NextDisplay == JobCompleted \/ CachedImageShown \/ ActionSave

SpecDisplay == InitDisplay /\ [][NextDisplay]_vars

(***************************************************************************)
(* Claims about ImageCache, checked under SpecCache.                       *)
(***************************************************************************)
Last(seq) == seq[Len(seq)]

\* the call made by the step: last_op' describes it
PutOfAbsentKey == last_op'.op = "put" /\ ~last_op'.hit
PutOfPresentKey == last_op'.op = "put" /\ last_op'.hit
GetOfPresentKey == last_op'.op = "get" /\ last_op'.hit
GetOfAbsentKey == last_op'.op = "get" /\ ~last_op'.hit

\* every stored image but the one under key is as before the step
OthersKept(key) ==
    \A k \in DOMAIN image_cache'.cache \ {key} :
        /\ k \in DOMAIN image_cache.cache
        /\ image_cache'.cache[k] = image_cache.cache[k]

\* C5: after any sequence of get and put calls on a cache of capacity
\* C >= 1 the cache holds at most C entries (images and recency list).
C5_NeverMoreThanCapacity ==
    /\ Cardinality(DOMAIN image_cache.cache) <= image_cache.max_size
    /\ Len(image_cache.access_order) <= image_cache.max_size

\* a put of a new key into a full cache has just evicted an entry
C5_Witness ==
    /\ last_op.op = "put" /\ ~last_op.hit /\ last_op.dropped # {}
    /\ Cardinality(DOMAIN image_cache.cache) = image_cache.max_size

\* C6: put of a key not in the cache: when the cache holds C entries exactly
\* one entry is evicted, the one whose latest get or put is the oldest, and
\* the new key is inserted at the most-recently-used position; when it holds
\* fewer than C entries nothing is evicted.
C6_PutEvictsLeastRecentlyUsed ==
    [][PutOfAbsentKey =>
        LET key == last_op'.key
            old == DOMAIN image_cache.cache
        IN  /\ IF Cardinality(old) >= image_cache.max_size
               THEN \E victim \in old :
                       /\ LeastRecentlyUsed(victim)
                       /\ last_op'.dropped = {victim}
                       /\ DOMAIN image_cache'.cache = (old \ {victim}) \cup {key}
               ELSE /\ last_op'.dropped = {}
                    /\ DOMAIN image_cache'.cache = old \cup {key}
            /\ Last(image_cache'.access_order) = key
            /\ image_cache'.cache[key] = last_put'[key]
            /\ OthersKept(key)]_vars

\* a new key was put into a full cache of capacity >= 2 right after a get of
\* the key that was the oldest: another key was evicted
C6_Witness ==
    /\ last_op.op = "put" /\ ~last_op.hit /\ last_op.dropped # {}
    /\ image_cache.max_size >= 2
    /\ prev_op.op = "get" /\ prev_op.hit /\ prev_op.was_oldest
    /\ prev_op.key \in DOMAIN image_cache.cache

\* C7: get of a present key returns the image of the latest put for that key
\* and moves the key to the most-recently-used position; for C >= 2 the key
\* just read is not the victim of an eviction that follows it.
C7_GetReturnsLatestAndProtects ==
    [][/\ GetOfPresentKey =>
            /\ ret' = last_put[last_op'.key]
            /\ Last(image_cache'.access_order) = last_op'.key
            /\ image_cache'.cache = image_cache.cache
            /\ image_cache'.max_size = image_cache.max_size
       /\ (/\ last_op'.op = "put" /\ last_op'.dropped # {}
           /\ last_op.op = "get" /\ last_op.hit
           /\ image_cache.max_size >= 2)
            => last_op.key \notin last_op'.dropped]_vars

\* a key put twice with different images was read when it was the oldest
\* of a full cache of capacity >= 2, and survived the eviction that followed
C7_Witness ==
    /\ last_op.op = "put" /\ last_op.dropped # {}
    /\ prev_op.op = "get" /\ prev_op.hit /\ prev_op.was_oldest
    /\ image_cache.max_size >= 2
    /\ prev_op.key \in DOMAIN image_cache.cache
    /\ ret = NoImage
    /\ image_cache.cache[prev_op.key] = last_put[prev_op.key]
    /\ ~image_cache.cache[prev_op.key].preserve_brightness

\* C8: put of a key already in the cache evicts nothing, keeps the set of
\* keys and the relative order of the other keys, also at capacity; it
\* replaces that key's image and moves the key to the most-recently-used
\* position.  get of an absent key returns absent and changes nothing.
C8_RefreshAndMissFrame ==
    [][/\ PutOfPresentKey =>
            LET key == last_op'.key
            IN  /\ last_op'.dropped = {}
                /\ DOMAIN image_cache'.cache = DOMAIN image_cache.cache
                /\ ListRemove(image_cache'.access_order, key)
                     = ListRemove(image_cache.access_order, key)
                /\ Len(image_cache'.access_order) = Len(image_cache.access_order)
                /\ Last(image_cache'.access_order) = key
                /\ image_cache'.cache[key] = last_put'[key]
                /\ OthersKept(key)
       /\ GetOfAbsentKey =>
            /\ ret' = NoImage
            /\ image_cache' = image_cache]_vars

\* the oldest key of a full cache of capacity >= 3 was put again
C8_Witness ==
    /\ last_op.op = "put" /\ last_op.hit /\ last_op.was_oldest
    /\ image_cache.max_size >= 3
    /\ Cardinality(DOMAIN image_cache.cache) = image_cache.max_size
    /\ Last(image_cache.access_order) = last_op.key

(***************************************************************************)
(* Claims about the job controller, checked under Spec.                    *)
(***************************************************************************)
\* the positions of a statement in a handler's trace
Positions(tr, op, theme) == { i \in 1..Len(tr) : tr[i] = <<op, theme>> }

\* statement i of the trace runs with the processing lock held
UnderLock(tr, i) ==
    \E a \in Positions(tr, "acquire", NoTheme) :
        /\ a < i
        /\ \A r \in Positions(tr, "release", NoTheme) : r < a \/ r > i
        /\ \E r \in Positions(tr, "release", NoTheme) : r > i

\* the image is loaded and clustered: load_theme_image does not return early
ImageLoaded == original_image /\ clustering_data # NoClusters

\* the step is the completion callback of a successful job
Completion(job) == job.st = "computed" /\ DeliverJob(job)

\* the step is the highlight handler for theme_name: a selection
Selection(theme_name) ==
    /\ phase = "running"
    /\ Handler(OnOptionHighlighted(Start, theme_name))

\* C1: stale-result discard: when A's job completes after another theme B
\* (cached or not) was selected, the completion does not change what is
\* displayed, and A's result is in the cache under A's key.
C1_StaleResultDiscarded ==
    [][\A job \in BagToSet(running) :
         (Completion(job) /\ highlighted # job.theme) =>
            /\ preview' = preview
            /\ job.theme \in DOMAIN image_cache'.cache
            /\ image_cache'.cache[job.theme] = job.image]_vars

\* C2: every successful completion for a theme writes the result into the
\* cache under the theme's key, before the publish check, whether or not the
\* theme is still the current target.
C2_CompletionAlwaysCaches ==
    [][\A job \in BagToSet(running) :
         Completion(job) =>
            LET tr == UpdateProcessedTheme(Start, job.theme, job.image).trace
            IN  /\ job.theme \in DOMAIN image_cache'.cache
                /\ image_cache'.cache[job.theme] = job.image
                /\ Last(image_cache'.access_order) = job.theme
                /\ Cardinality(Positions(tr, "put", job.theme)) = 1
                /\ Cardinality(Positions(tr, "check", job.theme)) = 1
                /\ \A i \in Positions(tr, "put", job.theme) :
                     \A j \in Positions(tr, "check", job.theme) : i < j]_vars

\* a result was cached and never published while another theme is the
\* current target
C2_Witness ==
    /\ preview.current_theme = NoTheme
    /\ DOMAIN image_cache.cache # {}
    /\ current_processing_theme # NoTheme
    /\ current_processing_theme \notin DOMAIN image_cache.cache

\* C3: a completion changes the display only if the completed theme is the
\* current target at the check; the check and the publication run in one
\* critical section of the processing lock, the check first.
C3_PublishOnlyIfCurrentUnderLock ==
    [][\A job \in BagToSet(running) :
         Completion(job) =>
            LET tr == UpdateProcessedTheme(Start, job.theme, job.image).trace
            IN  /\ (preview' # preview) => current_processing_theme = job.theme
                /\ (current_processing_theme # job.theme) =>
                      /\ Positions(tr, "publish", job.theme) = {}
                      /\ current_processing_theme' = current_processing_theme
                /\ \A i \in Positions(tr, "publish", job.theme) :
                      /\ UnderLock(tr, i)
                      /\ \E c \in Positions(tr, "check", job.theme) :
                            /\ c < i
                            /\ UnderLock(tr, c)
                            /\ \A r \in Positions(tr, "release", NoTheme) :
                                  r < c \/ r > i]_vars

\* the job of the current target completed and was published, while a job
\* of another theme is still in flight
C3_Witness ==
    /\ preview.current_theme = highlighted
    /\ highlighted # NoTheme
    /\ current_processing_theme = NoTheme
    /\ preview.current_theme \in DOMAIN image_cache.cache
    /\ \E job \in BagToSet(running) :
          job.st = "computed" /\ job.theme # highlighted

\* C4: selection of theme T with the image loaded: if T is in the cache the
\* cached image is published and no job is submitted; otherwise T is marked
\* as the current target and then exactly one job for T is submitted.
C4_SelectionHitOrDispatch ==
    [][\A T \in Themes :
         (Selection(T) /\ ImageLoaded) =>
            LET tr == OnOptionHighlighted(Start, T).trace
            IN  IF T \in DOMAIN image_cache.cache
                THEN /\ preview' = [current_theme |-> T,
                                    current_image |-> image_cache.cache[T]]
                     /\ queue' = queue
                     /\ Positions(tr, "submit", T) = {}
                     /\ Positions(tr, "publish", T) # {}
                ELSE /\ current_processing_theme' = T
                     /\ queue' = Append(queue, T)
                     /\ preview' = preview
                     /\ Cardinality(Positions(tr, "submit", T)) = 1
                     /\ \A i \in Positions(tr, "submit", T) :
                          \E c \in Positions(tr, "set_current", T) : c < i]_vars

\* theme A was selected and missed (its job is pending), then the cached
\* theme B was selected and published at once
C4_Witness ==
    /\ highlighted # NoTheme
    /\ preview.current_theme = highlighted
    /\ highlighted \in DOMAIN image_cache.cache
    /\ current_processing_theme \notin {NoTheme, highlighted}
    /\ \E i \in 1..Len(queue) : queue[i] = current_processing_theme

\* the parameters that decide a job's output, as the application stores them
OutputParameters ==
    Parameters(sampling_size, color_count, max_iterations, preserve_brightness)

\* C9: whenever a pipeline parameter changes through apply_settings or
\* restore_default_settings the entire cache is invalidated: right after
\* the change no entry of the cache from before the change is left.
C9_ParameterChangeInvalidatesCache ==
    [][(phase = "running" /\ OutputParameters' # OutputParameters) =>
          /\ image_cache'.cache = EmptyDict
          /\ image_cache'.access_order = <<>>]_vars

\* the image a job for the theme would produce now
FreshImage(theme_name) ==
    apply_color_scheme(clustering_data, theme_name, preserve_brightness)

\* C10: the key of a result is the theme and the parameter fingerprint, so
\* every cache hit returns an image computed under the parameters that are
\* configured at the hit.
C10_HitIsComputedUnderCurrentParameters ==
    [][\A T \in Themes :
         (Selection(T) /\ ImageLoaded /\ T \in DOMAIN image_cache.cache) =>
            preview'.current_image = FreshImage(T)]_vars


(***************************************************************************)
(* Claims about the jobs: C11 .. C20.                                      *)
(***************************************************************************)
\* the step starts this job on a pool thread
Starts(job) == CopiesIn(job, running') = CopiesIn(job, running) + 1

\* C11: the image a job produces is computed with the clustering data and
\* the brightness flag that were in force when the job was submitted, also
\* when apply_settings or restore_default_settings changed them before the
\* job started.  (Violated: _process_theme_background reads both attributes
\* when it runs.)
C11_JobUsesSubmissionSnapshot ==
    [][\A job \in BagToSet(running') :
         (Starts(job) /\ job.st = "computed") =>
             job.image = apply_color_scheme(Head(submitted).clustering_data,
                                            job.theme,
                                            Head(submitted).preserve_brightness)]_vars


\* the step is the error callback of a job that raised in the pipeline
Failure(job) == job.st = "failed" /\ DeliverErrorJob(job)

\* C12: a job that fails in the pipeline produces an error notification,
\* writes no entry to the cache, leaves the display unchanged and leaves the
\* controller able to accept and complete later selections: it stays
\* running with the image, the clustering data and the queue as they were,
\* and the pool thread of the failed job is free again.
C12_FailureIsReportedAndContained ==
    [][\A job \in BagToSet(running) :
         Failure(job) =>
            LET tr == ReportJobError(Start, job.theme).trace
            IN  /\ Cardinality(Positions(tr, "error", NoTheme)) = 1
                /\ Positions(tr, "put", job.theme) = {}
                /\ Positions(tr, "publish", job.theme) = {}
                /\ image_cache' = image_cache
                /\ preview' = preview
                /\ phase' = "running"
                /\ original_image' = original_image
                /\ clustering_data' = clustering_data
                /\ queue' = queue
                /\ BagCardinality(running') < MAX_WORKERS]_vars

\* the job of theme A failed and was reported (A is still the current
\* target, is not cached and has no job in flight), and the selection of
\* another theme is displayed
C12_Witness ==
    /\ ImageLoaded
    /\ current_processing_theme # NoTheme
    /\ current_processing_theme \notin DOMAIN image_cache.cache
    /\ queue = <<>>
    /\ running = EmptyBag
    /\ highlighted \notin {NoTheme, current_processing_theme}
    /\ preview.current_theme = highlighted


\* C13: when the job of the current target fails, the current target is
\* cleared.  (Violated: the except branch only notifies.)
C13_FailureClearsCurrentTarget ==
    [][\A job \in BagToSet(running) :
         (Failure(job) /\ current_processing_theme = job.theme) =>
             current_processing_theme' = NoTheme]_vars


\* a value of a slider is outside its documented range
OutOfRange(v) ==
    \/ v.sampling_size \notin MIN_SAMPLING_SIZE..MAX_SAMPLING_SIZE
    \/ v.color_count \notin MIN_COLOR_COUNT..MAX_COLOR_COUNT
    \/ v.max_iterations \notin MIN_MAX_ITERATIONS..MAX_MAX_ITERATIONS

\* C14: apply_settings with a sample size outside [1000, 100000], a colour
\* count outside [4, 16] or max iterations outside [50, 500] does nothing
\* but notify an error: no job is submitted and the stored parameters, the
\* clustering data, the cache, the current target and the display are as
\* before, in every state in which the handler can run.
C14_InvalidSettingsRejected ==
    \A v \in SettingsInputs :
        (phase = "running" /\ OutOfRange(v)) =>
            LET s == ApplySettings(Start, v)
            IN  /\ s.trace = << <<"error", NoTheme>> >>
                /\ s.queue = queue
                /\ s.sampling_size = sampling_size
                /\ s.color_count = color_count
                /\ s.max_iterations = max_iterations
                /\ s.preserve_brightness = preserve_brightness
                /\ s.clustering_data = clustering_data
                /\ s.image_cache = image_cache
                /\ s.current_processing_theme = current_processing_theme
                /\ s.preview = preview

\* a state in which a rejected apply_settings has everything to preserve:
\* parameters that are not the defaults, a cached and displayed image, a
\* current target and its queued job
C14_Witness ==
    /\ phase = "running"
    /\ \E v \in SettingsInputs : OutOfRange(v)
    /\ OutputParameters # Defaults
    /\ DOMAIN image_cache.cache # {}
    /\ preview.current_theme # NoTheme
    /\ current_processing_theme # NoTheme
    /\ queue # <<>>


\* sequence p is an initial part of sequence q
IsPrefix(p, q) == Len(p) <= Len(q) /\ SubSeq(q, 1, Len(p)) = p

\* C15: at every moment at most 2 jobs are running; while 2 are running no
\* job is started and none is dropped from the queue (the queue only grows
\* at its end and running jobs only finish), and a selection that misses
\* the cache then still appends its job to the queue.
C15_AtMostTwoRunningOthersQueued ==
    /\ [](BagCardinality(running) <= 2)
    /\ [][BagCardinality(running) = 2 =>
            /\ IsPrefix(queue, queue')
            /\ running' \sqsubseteq running
            /\ \A T \in Themes :
                  (Selection(T) /\ ImageLoaded
                     /\ T \notin DOMAIN image_cache.cache) =>
                      queue' = Append(queue, T)]_vars

\* two jobs are running and a job submitted meanwhile waits in the queue
C15_Witness ==
    /\ BagCardinality(running) = 2
    /\ queue # <<>>


RECURSIVE SubmittedThemes(_)
\* the themes of the submit statements of a handler's trace, in order
SubmittedThemes(tr) ==
    IF tr = <<>> THEN <<>>
    ELSE IF Head(tr)[1] = "submit"
    THEN <<Head(tr)[2]>> \o SubmittedThemes(Tail(tr))
    ELSE SubmittedThemes(Tail(tr))

\* a pool thread takes the job at the head of the queue
StartOfJob == queue # <<>> /\ queue' = Tail(queue)

\* the callback of this job runs on the control thread: the job has ended
EndOfJob(job) == Completion(job) \/ Failure(job)

\* C16: every job submitted while the application runs eventually starts
\* and then ends as completed or failed: as long as jobs are queued, jobs
\* keep being started (the queue is first in, first out), and a job held by
\* a pool thread does not stay there for ever.  No job is cancelled: a job
\* leaves the queue only by being started and leaves its pool thread only
\* through its callback; and every submit statement of a selection appends
\* its job to the queue, whatever the load of the pool.
C16_EveryJobStartsAndEnds ==
    /\ ([]<><<StartOfJob>>_vars) \/ (<>[](queue = <<>>))
    /\ \A job \in JobValues :
          ([]<><<EndOfJob(job)>>_vars) \/ (<>[](~BagIn(job, running)))
    /\ [][/\ \/ IsPrefix(queue, queue')
              \/ StartOfJob
           /\ \/ running \sqsubseteq running'
              \/ \E job \in BagToSet(running) : EndOfJob(job)
           /\ BagToSet(running') \subseteq JobValues
           /\ \A T \in Themes :
                 Selection(T) =>
                     queue' = queue \o
                         SubmittedThemes(OnOptionHighlighted(Start, T).trace)]_vars

\* every job submitted so far has started and ended, one of them completed
\* (its image is cached and displayed)
C16_Witness ==
    /\ ImageLoaded
    /\ queue = <<>>
    /\ running = EmptyBag
    /\ preview.current_theme \in DOMAIN image_cache.cache


\* the offsets of the claim
AdjacentOffsets == {-3, -2, -1, 1, 2, 3}

\* the number of times x occurs in a sequence
Count(seq, x) == Cardinality({ k \in 1..Len(seq) : seq[k] = x })

\* C17: when the theme at position p of the theme list is selected, the
\* preload that follows load_theme_image submits exactly one job for each
\* theme at an offset of -3 .. -1 or 1 .. 3 from p that is in the list and
\* not in the cache, and no job for any other theme.
C17_PreloadSubmitsAdjacentMisses ==
    [][\A p \in 1..Len(filtered_themes) :
         LET T   == filtered_themes[p]
             s0  == LoadThemeImage(Start, T)
             s1  == OnOptionSelected(Start, T)
             own == SubmittedThemes(s0.trace)
             pre == SubmittedThemes(SubSeq(s1.trace, Len(s0.trace) + 1,
                                           Len(s1.trace)))
             due == { filtered_themes[q] :
                        q \in { q \in 1..Len(filtered_themes) :
                                  q - p \in AdjacentOffsets } }
                    \ DOMAIN image_cache.cache
         IN  (highlighted = T /\ SelectAtRest) =>
                /\ queue' = queue \o own \o pre
                /\ \A U \in due : Count(pre, U) = 1
                /\ \A k \in 1..Len(pre) : pre[k] \in due]_vars

\* after a selection at position p: the queue holds the job of the theme
\* three positions further, none for the theme four positions further and
\* none for a cached theme inside the window
C17_Witness ==
    \E p \in 1..Len(filtered_themes) :
        /\ highlighted = filtered_themes[p]
        /\ p + 4 <= Len(filtered_themes)
        /\ Count(queue, filtered_themes[p + 3]) = 1
        /\ Count(queue, filtered_themes[p + 4]) = 0
        /\ \E q \in (p + 1)..(p + 2) :
              /\ filtered_themes[q] \in DOMAIN image_cache.cache
              /\ Count(queue, filtered_themes[q]) = 0


\* C18: a job submitted by preload_adjacent_themes or aggressive_preload
\* never changes the display when it completes; it only writes its result
\* to the cache.  (Violated: the completion callback publishes whenever the
\* job's theme is the current target, whoever submitted the job.)
C18_PreloadJobNeverPublishes ==
    [][\A job \in BagToSet(running) :
         (Completion(job) /\ job.origin = "preload") =>
             /\ preview' = preview
             /\ job.theme \in DOMAIN image_cache'.cache]_vars

\* C19: the failure of a preload job produces no notification, the failure
\* of a job submitted by load_theme_image for the selected theme does.
\* (Violated: the except branch notifies for every job.)
C19_PreloadFailureNotNotified ==
    [][\A job \in BagToSet(running) :
         Failure(job) =>
            LET tr == ReportJobError(Start, job.theme).trace
            IN  IF job.origin = "preload"
                THEN Positions(tr, "error", NoTheme) = {}
                ELSE Positions(tr, "error", NoTheme) # {}]_vars


\* C20: the control thread never blocks waiting for a job in a handler:
\* it is never inside a handler while that handler waits for queued or
\* running jobs.  (Violated: on_unmount waits in executor.shutdown(wait=True)
\* until every queued and running job has finished.)
C20_ControlThreadNeverWaitsForJob ==
    phase = "unmounting" => (queue = <<>> /\ running = EmptyBag)

(***************************************************************************)
(* Claims about the recolor pipeline: C21 .. C30.  The mapping claims are  *)
(* checked under SpecMapper, the pixel claims under SpecRecolor.           *)
(***************************************************************************)
K == Len(recolor.dominant_colors)
M == Len(recolor.color_scheme)

\* centre and palette colour of brightness rank i, as np.argsort ranks them
CentreOfRank(i) == recolor.dom_order[i]
ColourOfRank(i) == recolor.theme_order[i]

\* the ranks are brightness ranks: ascending channel mean
RankedByBrightness(colours, order) ==
    \A i, j \in 1..Len(colours) :
        i < j => Brightness(colours[order[i]]) <= Brightness(colours[order[j]])

Overlap == 1..Min(K, M)

\* C21: after the mapping is built, for every rank i below min(K, M) the
\* centre of brightness rank i is mapped to the palette colour of brightness
\* rank i, and distinct centres of the overlapping range are mapped to
\* distinct palette indices.
C21_RankMapsToRank ==
    recolor.done =>
        /\ RankedByBrightness(recolor.dominant_colors, recolor.dom_order)
        /\ RankedByBrightness(recolor.color_scheme, recolor.theme_order)
        /\ \A i \in Overlap :
            /\ recolor.palette_index[CentreOfRank(i)] = ColourOfRank(i)
            /\ recolor.mapping[CentreOfRank(i)]
                    = recolor.color_scheme[ColourOfRank(i)]
        /\ \A i, j \in Overlap :
            i # j => recolor.palette_index[CentreOfRank(i)]
                        # recolor.palette_index[CentreOfRank(j)]

\* a mapping of three centres in falling brightness onto two palette colours
\* of different brightness
C21_Witness ==
    /\ recolor.done
    /\ K = 3 /\ M = 2
    /\ Brightness(recolor.dominant_colors[1])
            > Brightness(recolor.dominant_colors[2])
    /\ Brightness(recolor.dominant_colors[2])
            > Brightness(recolor.dominant_colors[3])
    /\ Brightness(recolor.color_scheme[1])
            # Brightness(recolor.color_scheme[2])

\* C22: when K = M the mapping is a bijection between centre indices and
\* palette indices, and a strictly darker centre never gets a brighter
\* palette colour than a brighter centre does.
C22_EqualSizesGiveOrderPreservingBijection ==
    (recolor.done /\ K = M) =>
        /\ \A k \in 1..M : \E c \in 1..K : recolor.palette_index[c] = k
        /\ \A c1, c2 \in 1..K :
            /\ c1 # c2 => recolor.palette_index[c1] # recolor.palette_index[c2]
            /\ Brightness(recolor.dominant_colors[c1])
                    < Brightness(recolor.dominant_colors[c2])
                => Brightness(recolor.mapping[c1])
                    <= Brightness(recolor.mapping[c2])

\* two centres, the first the brighter, and two palette colours, the first
\* the brighter: the mapping keeps the indices
C22_Witness ==
    /\ recolor.done
    /\ K = 2 /\ M = 2
    /\ Brightness(recolor.dominant_colors[1])
            > Brightness(recolor.dominant_colors[2])
    /\ Brightness(recolor.color_scheme[1])
            > Brightness(recolor.color_scheme[2])
    /\ recolor.palette_index = <<1, 2>>

\* C23: when K > M every centre of rank M or more (counting from 0) is
\* mapped to a palette colour whose squared Euclidean distance to the centre
\* is minimal over the whole palette, and the centres of lower rank keep the
\* palette colour of their rank.
C23_SurplusCentresGetNearestColour ==
    (recolor.done /\ K > M) =>
        /\ \A i \in (M + 1)..K : \A k \in 1..M :
            SquaredDistance(recolor.mapping[CentreOfRank(i)],
                            recolor.dominant_colors[CentreOfRank(i)])
                <= SquaredDistance(recolor.color_scheme[k],
                                   recolor.dominant_colors[CentreOfRank(i)])
        /\ \A i \in 1..M :
            recolor.mapping[CentreOfRank(i)]
                = recolor.color_scheme[ColourOfRank(i)]

\* the brightest of three centres is nearest to the second palette colour,
\* which is the darker one
C23_Witness ==
    /\ recolor.done
    /\ K = 3 /\ M = 2
    /\ recolor.palette_index[CentreOfRank(3)] = 2
    /\ ColourOfRank(1) = 2
    /\ SquaredDistance(recolor.color_scheme[2],
                       recolor.dominant_colors[CentreOfRank(3)])
            < SquaredDistance(recolor.color_scheme[1],
                              recolor.dominant_colors[CentreOfRank(3)])

Pixels == 1..Len(recolor.pixels_float)

\* the palette colour the mapping assigns to the label of pixel p
ColourOfPixel(p) ==
    recolor.color_scheme[recolor.palette_index[recolor.labels[p]]]

ImageBrightness(image) ==
    LET RECURSIVE upto(_)
        upto(n) == IF n = 0 THEN 0 ELSE upto(n - 1) + Brightness(image[n])
    IN  upto(Len(image))

\* the scaled value of channel ch of pixel p exceeds 255
NeedsClipping(p, ch) ==
    ColourOfPixel(p)[ch] * Brightness(recolor.pixels_float[p])
        > 255 * Brightness(ColourOfPixel(p))

\* C25: with preserve_brightness on and no scaled value that needs clipping,
\* the mean per-pixel brightness of the output image is that of the input
\* image within a relative tolerance of 1e-3 (pixels painted black and the
\* conversion to 8-bit samples included).
C25_BrightnessPreserved ==
    (/\ recolor.done /\ recolor.preserve_brightness
     /\ \A p \in Pixels, ch \in Channels : ~NeedsClipping(p, ch)) =>
        1000 * Abs(ImageBrightness(recolor.new_image)
                        - ImageBrightness(recolor.pixels_float))
            <= ImageBrightness(recolor.pixels_float)

\* C26: with preserve_brightness on, every channel of every pixel is the
\* palette channel times orig_brightness / max(new_brightness, epsilon),
\* clipped to [0, 255]: no output sample wraps around or leaves 0 .. 255,
\* and a pixel of original brightness 0 is output black.
C26_ScaledChannelsAreClipped ==
    (recolor.done /\ recolor.preserve_brightness) =>
        \A p \in Pixels :
            /\ \A ch \in Channels :
                /\ recolor.new_image[p][ch] \in 0..255
                /\ NeedsClipping(p, ch) => recolor.new_image[p][ch] = 255
                /\ (~NeedsClipping(p, ch) /\ Brightness(ColourOfPixel(p)) > 0)
                    => recolor.new_image[p][ch]
                        = (ColourOfPixel(p)[ch]
                            * Brightness(recolor.pixels_float[p]))
                                \div Brightness(ColourOfPixel(p))
            /\ Brightness(recolor.pixels_float[p]) = 0
                => recolor.new_image[p] = BLACK

\* a white pixel painted red: the red channel, scaled by 3, is clipped
C26_Witness ==
    /\ recolor.done /\ recolor.preserve_brightness
    /\ recolor.pixels_float = <<WHITE>>
    /\ ColourOfPixel(1) = RED
    /\ NeedsClipping(1, 1)
    /\ recolor.new_image = <<RED>>

\* the shared clustering data and the palette array of the call
SharedArrays ==
    <<recolor.pixels_float, recolor.labels, recolor.dominant_colors,
      recolor.color_scheme>>

C29_ClusteringUsesConfiguredCap ==
    ImageLoaded =>
        /\ clustering_data.max_iter = max_iterations
        /\ clustering_data.random_state = KMEANS_RANDOM_STATE

\* the scenario: every pixel [255,0,0], K = 2 (both centres fitted on red
\* pixels alone), the palette [#000000, #FFFFFF], preserve_brightness off
SolidRedScenario ==
    /\ \A p \in Pixels : recolor.pixels_float[p] = RED
    /\ recolor.dominant_colors = <<RED, RED>>
    /\ recolor.color_scheme = <<BLACK, WHITE>>
    /\ ~recolor.preserve_brightness

\* C30: in the solid red scenario both centres have the same brightness, and
\* every channel of every output pixel is that of #FFFFFF, the palette
\* colour of the higher brightness rank.
C30_SolidRedComesOutWhite ==
    (recolor.done /\ SolidRedScenario) =>
        /\ Brightness(recolor.dominant_colors[1])
                = Brightness(recolor.dominant_colors[2])
        /\ \A p \in Pixels, ch \in Channels :
                recolor.new_image[p][ch] = WHITE[ch]

(***************************************************************************)
(* Claims C31 .. C38.                                                      *)
(***************************************************************************)
\* C31: the recolored image handed to the display and written by save has
\* the width and height of the source image: publishing an image changes
\* neither the size of the image the cache holds nor the size of the image
\* that is saved.
C31_DimensionsKept ==
    /\ \A theme \in 1..NThemes :
        display.cache[theme] # NoObject
            => display.objects[display.cache[theme]] = display.source
    /\ display.current_image # NoObject
            => display.objects[display.current_image] = display.source
    /\ display.saved # NoSize => display.saved = display.source

\* the step is apply_settings reading the values v
Applies(v) == phase = "running" /\ Handler(ApplySettings(Start, v))

\* C32: when apply_settings succeeds with a sample size or a colour count
\* other than the one in effect, the clustering data is computed again with
\* the new values, so the jobs that start afterwards use a clustering built
\* with them.
C32_ApplyRecomputesClustering ==
    [][\A v \in SettingsInputs :
         (/\ Applies(v) /\ ~OutOfRange(v) /\ original_image
          /\ \/ v.sampling_size # sampling_size
             \/ v.color_count # color_count) =>
            /\ clustering_data'.sample_size = v.sampling_size
            /\ clustering_data'.n_colors = v.color_count]_vars

\* the keys of a list
Keys(list) == {list[i] : i \in 1..Len(list)}

\* C35: after any sequence of get, put and the direct removal of the current
\* key by apply_settings, the recency list has no duplicates and its keys
\* are the keys of the stored images.
C35_RecencyListMatchesImages ==
    /\ \A i, j \in 1..Len(image_cache.access_order) :
            image_cache.access_order[i] = image_cache.access_order[j] => i = j
    /\ Keys(image_cache.access_order) = DOMAIN image_cache.cache

\* the direct removal has just taken a key out of a cache that keeps others
C35_Witness ==
    /\ last_op.op = "remove" /\ last_op.hit
    /\ last_op.key \notin DOMAIN image_cache.cache
    /\ Len(image_cache.access_order) >= 2

\* C37: when loading or clustering the source image failed (no image or no
\* clustering data), then whatever is selected and preloaded afterwards the
\* cache stays empty, the current target stays unset and the display is
\* never updated; the jobs the preloads submit return without effect, so no
\* job ever has a result or an error to hand back.
C37_NoImageNoEffect ==
    (phase = "running" /\ ~ImageLoaded) =>
        /\ image_cache.cache = EmptyDict
        /\ image_cache.access_order = <<>>
        /\ current_processing_theme = NoTheme
        /\ preview = [current_theme |-> NoTheme, current_image |-> NoImage]
        /\ running = EmptyBag

\* no image is loaded, the second theme is highlighted and a job submitted
\* by a preload waits in the queue
C37_Witness ==
    /\ phase = "running" /\ ~ImageLoaded
    /\ highlighted = 2
    /\ queue # <<>>

\* the state restore_default_settings would leave if it ran now
Restored == RestoreDefaultSettings(Start)

\* C38: restore_default_settings sets sample size, colour count, max
\* iterations and brightness flag to their defaults, leaves the contents and
\* the recency order of the cache, the clustering data, the current target
\* and the display as they are, and submits no job.
C38_RestoreOnlyResetsParameters ==
    phase = "running" =>
        /\ Restored.sampling_size = DEFAULT_SAMPLING_SIZE
        /\ Restored.color_count = DEFAULT_COLOR_COUNT
        /\ Restored.max_iterations = DEFAULT_MAX_ITERATIONS
        /\ Restored.preserve_brightness = DEFAULT_PRESERVE_BRIGHTNESS
        /\ Restored.image_cache = image_cache
        /\ Restored.clustering_data = clustering_data
        /\ Restored.current_processing_theme = current_processing_theme
        /\ Restored.preview = preview
        /\ Restored.queue = queue
        /\ Restored.submissions = <<>>
        /\ \A T \in Themes : Positions(Restored.trace, "submit", T) = {}

\* the settings are back at the defaults while the cache still holds an
\* image made with the brightness flag off, a theme is the current target
\* and its job waits
C38_Witness ==
    /\ phase = "running"
    /\ settings_panel = Defaults
    /\ sampling_size = DEFAULT_SAMPLING_SIZE
    /\ preserve_brightness = DEFAULT_PRESERVE_BRIGHTNESS
    /\ clustering_data # NoClusters
    /\ \E T \in DOMAIN image_cache.cache :
            ~image_cache.cache[T].preserve_brightness
    /\ current_processing_theme # NoTheme
    /\ queue # <<>>

\* C36: on_unmount always returns: the shutdown of the pool, which waits for
\* the queued and the running jobs, ends also when a worker is handing its
\* result or its error to the control thread with call_from_thread; the
\* control thread and a worker never wait for each other.
C36_UnmountReturns == (phase = "unmounting") ~> (phase = "unmounted")

\* nothing is left to happen unless the user makes another input: no job is
\* queued or running and the preload timer has fired
AtRest ==
    /\ phase = "running"
    /\ queue = <<>>
    /\ running = EmptyBag
    /\ ~preload_timer

\* the highlighted theme rendered with the configured parameters
RenderedWithSettings ==
    [theme |-> highlighted, sample_size |-> sampling_size,
     n_colors |-> color_count, max_iter |-> max_iterations,
     random_state |-> KMEANS_RANDOM_STATE,
     preserve_brightness |-> preserve_brightness]

\* C33: after apply_settings has succeeded while a theme is highlighted (its
\* cache entry removed, a new job dispatched), and with no failure and no
\* further selection, the display eventually shows that theme rendered with
\* the new parameters and keeps showing it, also when an older job of the
\* theme was in flight.  Under SpecSettings every input after the mount is
\* an apply_settings, so whenever the pool has come to rest the display must
\* be showing that image.
C33_AppliedSettingsReachDisplay ==
    (AtRest /\ ImageLoaded /\ highlighted # NoTheme) =>
        /\ preview.current_theme = highlighted
        /\ preview.current_image = RenderedWithSettings

\* C34: once the user stops changing the selection, and no job fails, the
\* display eventually shows the last selected theme and never changes to
\* another, for every interleaving of selections, preload jobs and
\* completions.  Under SpecSelections: whenever the pool has come to rest
\* the display must be showing the highlighted theme.
C34_LastSelectionReachesDisplay ==
    (AtRest /\ ImageLoaded /\ highlighted # NoTheme) =>
        preview.current_theme = highlighted

=============================================================================
